---------------------------- MODULE Spec2Model ----------------------------
(***************************************************************************)
(* Model of the Information Authenticator backend (src/app.py): the        *)
(* confidence classifier, the two paper-search adapters, the aggregation   *)
(* and response shaping of verify_information, the query log, and the      *)
(* session-based chatbot.                                                  *)
(***************************************************************************)
EXTENDS Integers, Sequences, FiniteSets, TLC

VARIABLES
    result_count,   \* argument of calculate_confidence
    confidence,     \* value returned by calculate_confidence ("" before the call)
    query,          \* argument of verify_information
    limit,          \* argument of verify_information
    semantic_api,   \* what the Semantic Scholar request does during the call
    crossref_api,   \* what the CrossRef request does during the call
    db_ok,          \* whether the sqlite INSERT/commit succeeds during the call
    gemini_ok,      \* whether generate_content succeeds during the call
    db,             \* rows of the queries table, in insertion order
    clock,          \* the server's clock, read by datetime.now()
    session,        \* the Flask session: a function on a subset of {"chat_history"}
    prompt,         \* the last conversation_prompt built by chatbot
    turns_ok,       \* history variable: the turns answered since the last clear
    calls,          \* collaborator calls made by the last operation, in order
    response        \* what the last operation returned

vars == <<result_count, confidence, query, limit, semantic_api, crossref_api,
          db_ok, gemini_ok, db, clock, session, prompt, turns_ok, calls,
          response>>

\* ------------------------------------------------------------------ bounds

MaxCount == 120
MaxQuotaLimit == 100
MaxLimit == 2
MaxItems == 2
MaxRouteItems == 1
MaxRequests == 2
MaxTurns == 16

\* ------------------------------------------------------- program constants

DEFAULT_LIMIT == 20
ABSTRACT_MAX == 500
HISTORY_WINDOW == 10
RECENT_QUERIES == 10

\* ------------------------------------------------------------------ values

Min(a, b) == IF a <= b THEN a ELSE b

\* Python None where a text may stand. Text is a sequence of characters; no
\* character is longer than one symbol, so None is not a text.
None == <<"<None>">>

\* The abstract of an item, by its length: an absent key, null, or a text.
AbsMissing == [kind |-> "missing", len |-> 0]
AbsNone == [kind |-> "null", len |-> 0]
AbsText(n) == [kind |-> "str", len |-> n]

NO_TITLE ==
    <<"N","o"," ","t","i","t","l","e"," ","a","v","a","i","l","a","b","l","e">>
NO_ABSTRACT == AbsText(21)

LowerChar(c) ==
    CASE c = "A" -> "a"
      [] c = "B" -> "b"
      [] c = "N" -> "n"
      [] OTHER -> c

\* str.lower()
Lower(s) == [i \in 1..Len(s) |-> LowerChar(s[i])]

\* str.strip(), over texts of blanks and letters
RECURSIVE LStrip(_)
LStrip(s) == IF s # <<>> /\ Head(s) = " " THEN LStrip(Tail(s)) ELSE s
RECURSIVE RStrip(_)
RStrip(s) ==
    IF s # <<>> /\ s[Len(s)] = " " THEN RStrip(SubSeq(s, 1, Len(s) - 1)) ELSE s
Strip(s) == RStrip(LStrip(s))

\* seq[:n] for n >= 0
Take(s, n) == SubSeq(s, 1, Min(n, Len(s)))

\* seq[-n:] for n > 0
LastN(s, n) == SubSeq(s, Len(s) - Min(n, Len(s)) + 1, Len(s))

\* -------------------------------------------------- calculate_confidence

calculate_confidence_off(n) ==
    IF n = 0 THEN "Not supported"
    ELSE IF 1 <= n /\ n <= 3 THEN "Weak Evidence"
    ELSE IF 4 <= n /\ n < 9 THEN "Moderate Evidence"
    ELSE "Strong Evidence"

calculate_confidence(n) ==
    IF n = 0 THEN "Not supported"
    ELSE IF 1 <= n /\ n <= 3 THEN "Weak Evidence"
    ELSE IF 4 <= n /\ n <= 9 THEN "Moderate Evidence"
    ELSE "Strong Evidence"

\* ------------------------------------------------ int(limit * 0.7), IEEE 754
\* The double nearest to 0.7 is 0x1.6666666666666p-1 = M07 * 2^-53 with
\* M07 = 6305039478318694, held here in 15-bit limbs, least significant first.

LIMB == 2 ^ 15
M07 == <<26214, 19660, 6553, 179>>

\* The exact product n * M07, as five 15-bit limbs (n < 2^15).
RECURSIVE MulLimbs(_, _, _)
MulLimbs(n, m, carry) ==
    IF m = <<>> THEN <<carry>>
    ELSE LET t == n * Head(m) + carry
         IN  <<t % LIMB>> \o MulLimbs(n, Tail(m), t \div LIMB)

Bit(p, i) == (p[(i \div 15) + 1] \div (2 ^ (i % 15))) % 2

BitLen(p) ==
    LET set == {i \in 0..(15 * Len(p) - 1) : Bit(p, i) = 1}
    IN  IF set = {} THEN 0 ELSE 1 + CHOOSE i \in set : \A j \in set : j <= i

RECURSIVE BitsValue(_, _, _)
BitsValue(p, lo, hi) ==
    IF lo > hi THEN 0 ELSE Bit(p, lo) + 2 * BitsValue(p, lo + 1, hi)

\* The product is rounded to 53 significant bits, ties to even, and int()
\* then drops the fraction: the integer part of the exact product, plus one
\* when the rounding carries into it.
IntTimes07(n) ==
    IF n = 0 THEN 0
    ELSE LET p == MulLimbs(n, M07, 0)
             e == BitLen(p) - 53
             floorPart == BitsValue(p, 53, 15 * Len(p) - 1)
             guard == e >= 1 /\ Bit(p, e - 1) = 1
             sticky == \E i \in 0..(e - 2) : Bit(p, i) = 1
             roundUp == guard /\ (sticky \/ Bit(p, e) = 1)
             carries == \A i \in e..52 : Bit(p, i) = 1
         IN  IF roundUp /\ carries THEN floorPart + 1 ELSE floorPart

\* int(limit * 0.7) for every limit the model draws, computed once.
IntTimes07Table == [n \in 0..(MaxQuotaLimit + DEFAULT_LIMIT) |-> IntTimes07(n)]

\* Lines 263-264
semantic_limit_of(lim) == IntTimes07Table[lim]
crossref_limit_of(lim) == lim - semantic_limit_of(lim)

\* ------------------------------------------------------- provider payloads
\* A JSON member of an item: absent, null, or a value.

JMissing == [kind |-> "missing", val |-> <<>>]
JNull == [kind |-> "null", val |-> <<>>]
JVal(v) == [kind |-> "val", val |-> v]

TitleAb == <<"A", "b">>
TitleaB == <<"a", "B">>
Year2020 == <<"2", "0", "2", "0">>
NA == <<"N", "/", "A">>
LongAbstract == 600

\* Items of the Semantic Scholar payload: {title, url, paperId, year, abstract}.
SemanticItem(t, a) ==
    [title |-> t, url |-> JVal(<<"s">>), paperId |-> JVal(<<"p">>),
     year |-> JVal(Year2020), abstract |-> a]

SemanticItems ==
    { [title |-> JMissing, url |-> JMissing, paperId |-> JMissing,
       year |-> JMissing, abstract |-> AbsMissing],
      SemanticItem(JNull, AbsText(LongAbstract)),
      SemanticItem(JVal(TitleAb), AbsText(LongAbstract)),
      SemanticItem(JVal(TitleaB), AbsText(LongAbstract)),
      SemanticItem(JVal(TitleAb), AbsNone) }

\* Items of the CrossRef payload: {title: [..], DOI, published, abstract}.
CrossrefItem(t, a) ==
    [title |-> t, DOI |-> JVal(<<"d">>), published |-> JVal(Year2020),
     abstract |-> a]

CrossrefItems ==
    { [title |-> JMissing, DOI |-> JMissing, published |-> JMissing,
       abstract |-> AbsMissing],
      CrossrefItem(JVal(<<None>>), AbsText(LongAbstract)),
      CrossrefItem(JVal(<<TitleAb>>), AbsText(LongAbstract)),
      CrossrefItem(JVal(<<TitleaB>>), AbsText(LongAbstract)),
      CrossrefItem(JVal(<<>>), AbsText(LongAbstract)) }

\* The items the providers answer with in the runs of all the routes.
RouteSemanticItems ==
    { SemanticItem(JNull, AbsText(LongAbstract)),
      SemanticItem(JVal(TitleAb), AbsText(LongAbstract)),
      SemanticItem(JVal(TitleaB), AbsText(LongAbstract)) }

RouteCrossrefItems ==
    { [title |-> JMissing, DOI |-> JMissing, published |-> JMissing,
       abstract |-> AbsMissing],
      CrossrefItem(JVal(<<None>>), AbsText(LongAbstract)),
      CrossrefItem(JVal(<<TitleAb>>), AbsText(LongAbstract)) }

SeqsUpTo(S, n) == UNION {[1..k -> S] : k \in 0..n}

\* What one provider request does: requests.get raises ("error"), a status
\* other than 200 ("status"), a body response.json() cannot parse or whose
\* collection cannot be iterated ("malformed"), a body without the
\* collection key ("nokey"), or a body with the items ("ok").
ApiOutcomes(Items, n) ==
    {[kind |-> k, items |-> <<>>] : k \in {"error", "status", "malformed", "nokey"}}
    \cup {[kind |-> "ok", items |-> s] : s \in SeqsUpTo(Items, n)}

\* ------------------------------------------------ search_semantic_scholar

SemanticUrl(id) == <<"s", "s", "/">> \o id
DoiUrl(doi) == <<"d", "o", "i", "/">> \o doi
Get(j, default) == IF j.kind = "missing" THEN default
                   ELSE IF j.kind = "null" THEN None ELSE j.val

\* abstract[:500]
TruncateAbstract(a) == AbsText(Min(a.len, ABSTRACT_MAX))

SemanticPaper(item) ==
    [title |-> Get(item.title, NO_TITLE),
     url |-> Get(item.url, SemanticUrl(Get(item.paperId, <<>>))),
     year |-> Get(item.year, NA),
     abstract |-> TruncateAbstract(IF item.abstract.kind = "missing"
                                   THEN NO_ABSTRACT ELSE item.abstract),
     source |-> "semantic"]

\* Slicing None raises TypeError inside the try block: the except clause
\* returns [] for the whole call.
search_semantic_scholar(api) ==
    IF api.kind # "ok" THEN <<>>
    ELSE IF \E i \in 1..Len(api.items) : api.items[i].abstract.kind = "null"
    THEN <<>>
    ELSE [i \in 1..Len(api.items) |-> SemanticPaper(api.items[i])]

\* -------------------------------------------------------- search_crossref

CrossrefPaper(item) ==
    [title |-> IF item.title.kind = "missing" THEN NO_TITLE
               ELSE item.title.val[1],
     url |-> DoiUrl(Get(item.DOI, <<>>)),
     year |-> IF item.published.kind = "val" THEN item.published.val ELSE NA,
     abstract |-> TruncateAbstract(IF item.abstract.kind = "missing"
                                   THEN NO_ABSTRACT ELSE item.abstract),
     source |-> "crossref"]

\* title null ([0] of None), title [] (IndexError) and abstract null all
\* raise inside the try block.
CrossrefItemRaises(item) ==
    \/ item.title.kind = "null"
    \/ item.title.kind = "val" /\ item.title.val = <<>>
    \/ item.abstract.kind = "null"

search_crossref(api) ==
    IF api.kind # "ok" THEN <<>>
    ELSE IF \E i \in 1..Len(api.items) : CrossrefItemRaises(api.items[i])
    THEN <<>>
    ELSE [i \in 1..Len(api.items) |-> CrossrefPaper(api.items[i])]

\* ------------------------------------------------------- save_query_to_db
\* One INSERT with its commit; a failure is printed and swallowed.

Call(f, a) == [fn |-> f, arg |-> a]

save_query_to_db_replace(rows, query_text, count, level, now, ok) ==
    IF ok
    THEN << [query_text |-> query_text, result_count |-> count,
             confidence_level |-> level, timestamp |-> now] >>
    ELSE rows

save_query_to_db(rows, query_text, count, level, now, ok) ==
    IF ok
    THEN Append(rows, [query_text |-> query_text, result_count |-> count,
                       confidence_level |-> level, timestamp |-> now])
    ELSE rows

\* ------------------------------------------------------- generate_summary
\* The text returned and the provider calls made. The provider's text is
\* opaque: GENERATED stands for response.text.strip().

NO_PAPERS_TO_SUMMARIZE == "No papers available to summarize."
SUMMARY_FALLBACK == "AI summary unavailable due to Gemini API error."
GENERATED == "<text generated by the provider>"

generate_summary(papers, ok) ==
    IF papers = <<>>
    THEN [text |-> NO_PAPERS_TO_SUMMARIZE, calls |-> <<>>]
    ELSE [text |-> IF ok THEN GENERATED ELSE SUMMARY_FALLBACK,
          calls |-> <<Call("generate_content", Len(papers))>>]

\* ----------------------------------------------------- verify_information

\* Lines 271-277: the Semantic Scholar papers, then each CrossRef paper
\* whose lowered title is not among the lowered Semantic Scholar titles.
\* existing_titles is built once, before the loop.
CombineKeepAll(semantic_papers, crossref_papers) ==
    semantic_papers \o crossref_papers

Combine(semantic_papers, crossref_papers) ==
    LET existing_titles ==
            {Lower(semantic_papers[i].title) : i \in 1..Len(semantic_papers)}
        fresh(paper) == Lower(paper.title) \notin existing_titles
    IN  semantic_papers \o SelectSeq(crossref_papers, fresh)

\* .lower() of None raises AttributeError, in the set comprehension for a
\* Semantic Scholar paper and in the loop for a CrossRef paper.
CombineRaises(semantic_papers, crossref_papers) ==
    \/ \E i \in 1..Len(semantic_papers) : semantic_papers[i].title = None
    \/ \E i \in 1..Len(crossref_papers) : crossref_papers[i].title = None

\* Line 280: all_papers[:limit]
LimitResultsLoose(all_papers, lim) == Take(all_papers, lim + 1)

LimitResults(all_papers, lim) == Take(all_papers, lim)

NO_PAPERS_FOUND == "No research papers found to generate a summary."

\* Lines 294-310
PrepareResponseEcho(count, level, summary, all_papers) ==
    [found |-> count > 0, confidence |-> level, result_count |-> count,
     summary |-> summary, results |-> all_papers]

PrepareResponse(count, level, summary, all_papers) ==
    IF count > 0
    THEN [found |-> TRUE, confidence |-> level, result_count |-> count,
          summary |-> summary, results |-> all_papers]
    ELSE [found |-> FALSE, confidence |-> level, result_count |-> 0,
          summary |-> NO_PAPERS_FOUND, results |-> <<>>]

NoValue ==
    [found |-> FALSE, confidence |-> "", result_count |-> 0, summary |-> "",
     results |-> <<>>]

\* The order of the collaborator calls after the aggregation: lines 289-292.
AfterAggregation(count, summary_calls) ==
    <<Call("save_query_to_db", count), Call("generate_summary", count)>>
        \o summary_calls

\* The whole call: whether it raised, the value returned, the rows of the
\* table afterwards and the collaborator calls made, in order.
verify_information(q, lim, sem_api, cr_api, dbok, gemok, rows, now) ==
    LET semantic_limit == semantic_limit_of(lim)
        crossref_limit == crossref_limit_of(lim)
        semantic_papers == search_semantic_scholar(sem_api)
        crossref_papers == search_crossref(cr_api)
        searches == << Call("search_semantic_scholar", semantic_limit),
                       Call("search_crossref", crossref_limit) >>
    IN  IF CombineRaises(semantic_papers, crossref_papers)
        THEN [raised |-> TRUE, value |-> NoValue, db |-> rows,
              calls |-> searches]
        ELSE LET all_papers ==
                     LimitResults(Combine(semantic_papers, crossref_papers), lim)
                 count == Len(all_papers)
                 level == calculate_confidence(count)
                 summary == generate_summary(all_papers, gemok)
             IN  [raised |-> FALSE,
                  value |-> PrepareResponse(count, level, summary.text, all_papers),
                  db |-> save_query_to_db(rows, q, count, level, now, dbok),
                  calls |-> searches \o AfterAggregation(count, summary.calls)]

\* ------------------------------------------------------------------ state

NoResponse == [op |-> "none", status |-> "none", body |-> [error |-> ""]]
NoPrompt == [preamble |-> "", turns |-> <<>>, message |-> <<>>]
NoSession == [present |-> FALSE, chat_history |-> <<>>]
NoApi == [kind |-> "error", items |-> <<>>]

Limits == (1..MaxLimit) \cup {DEFAULT_LIMIT}

InitApp ==
    /\ db = <<>>
    /\ clock = 0
    /\ session = NoSession
    /\ prompt = NoPrompt
    /\ turns_ok = <<>>
    /\ calls = <<>>
    /\ response = NoResponse

InitIdle ==
    /\ result_count = 0
    /\ confidence = ""
    /\ query = <<"q">>
    /\ limit = DEFAULT_LIMIT
    /\ semantic_api = NoApi
    /\ crossref_api = NoApi
    /\ db_ok = TRUE
    /\ gemini_ok = TRUE

\* The server after start-up, before any request.
Init == InitApp /\ InitIdle

\* One call of calculate_confidence on any count up to MaxCount.
InitClassify ==
    /\ InitApp
    /\ result_count \in 0..MaxCount
    /\ confidence = ""
    /\ query = <<"q">>
    /\ limit = DEFAULT_LIMIT
    /\ semantic_api = NoApi
    /\ crossref_api = NoApi
    /\ db_ok = TRUE
    /\ gemini_ok = TRUE

\* One call of verify_information with any limit up to MaxQuotaLimit, the
\* providers unreachable or answering with no item.
InitQuota ==
    /\ InitApp
    /\ result_count = 0
    /\ confidence = ""
    /\ query = <<"q">>
    /\ limit \in 1..MaxQuotaLimit
    /\ semantic_api \in ApiOutcomes(SemanticItems, 0)
    /\ crossref_api = NoApi
    /\ db_ok \in BOOLEAN
    /\ gemini_ok = TRUE

\* One call of verify_information with a small or the default limit, each
\* provider failing or answering with up to MaxItems items.
InitVerify ==
    /\ InitApp
    /\ result_count = 0
    /\ confidence = ""
    /\ query = <<"q">>
    /\ limit \in Limits
    /\ semantic_api \in ApiOutcomes(SemanticItems, MaxItems)
    /\ crossref_api \in ApiOutcomes(CrossrefItems, MaxItems)
    /\ db_ok \in BOOLEAN
    /\ gemini_ok \in BOOLEAN

\* ---------------------------------------------------------------- actions

CalculateConfidence ==
    /\ confidence = ""
    /\ confidence' = calculate_confidence(result_count)
    /\ UNCHANGED <<result_count, query, limit, semantic_api, crossref_api,
                   db_ok, gemini_ok, db, clock, session, prompt, turns_ok,
                   calls, response>>

\* A direct call of verify_information(query, limit).
VerifyInformation ==
    /\ response.op = "none"
    /\ LET r == verify_information(query, limit, semantic_api, crossref_api,
                                   db_ok, gemini_ok, db, clock)
       IN  /\ db' = r.db
           /\ calls' = r.calls
           /\ response' = [op |-> "verify_information",
                           status |-> IF r.raised THEN "raised" ELSE "returned",
                           body |-> r.value]
    /\ clock' = clock + 1
    /\ UNCHANGED <<result_count, confidence, query, limit, semantic_api,
                   crossref_api, db_ok, gemini_ok, session, prompt, turns_ok>>

\* POST /verify: the statement is stripped; a blank one is answered 400, any
\* other goes to verify_information with the fixed limit; an exception from
\* it is answered 500.
Statements == { <<>>, <<" ">>, <<" ", "q">> }

\* A request is handled at a time of its own; MaxRequests bounds the run.
Tick ==
    /\ clock < MaxRequests
    /\ clock' = clock + 1

Verify ==
    /\ Tick
    /\ \E statement \in Statements :
          LET q == Strip(statement)
          IN  IF q = <<>>
              THEN /\ response' = [op |-> "/verify", status |-> "400",
                                   body |-> [error |-> "No query provided",
                                             found |-> FALSE]]
                   /\ calls' = <<>>
                   /\ db' = db
                   /\ db_ok' = db_ok
              ELSE \E sem \in ApiOutcomes(RouteSemanticItems, MaxRouteItems),
                      cr \in ApiOutcomes(RouteCrossrefItems, MaxRouteItems),
                      dbok \in BOOLEAN, gemok \in BOOLEAN :
                      LET r == verify_information(q, DEFAULT_LIMIT, sem, cr,
                                                  dbok, gemok, db, clock)
                      IN  /\ response' =
                                 IF r.raised
                                 THEN [op |-> "/verify", status |-> "500",
                                       body |-> [error |-> "Internal server error",
                                                 found |-> FALSE]]
                                 ELSE [op |-> "/verify", status |-> "200",
                                       body |-> r.value]
                          /\ calls' = r.calls
                          /\ db' = r.db
                          /\ db_ok' = dbok
    /\ UNCHANGED <<result_count, confidence, query, limit, semantic_api,
                   crossref_api, gemini_ok, session, prompt, turns_ok>>

\* GET /stats: the row count and the 10 newest rows, newest first. The
\* timestamps grow with the insertions, so newest first is the reverse of
\* the insertion order.
Reverse(s) == [i \in 1..Len(s) |-> s[Len(s) + 1 - i]]

Stats ==
    /\ Tick
    /\ \E ok \in BOOLEAN :
          response' =
              IF ok
              THEN [op |-> "/stats", status |-> "200",
                    body |-> [total_queries |-> Len(db),
                              recent_queries |-> Take(Reverse(db), RECENT_QUERIES)]]
              ELSE [op |-> "/stats", status |-> "500",
                    body |-> [error |-> "database error"]]
    /\ calls' = <<>>
    /\ UNCHANGED <<result_count, confidence, query, limit, semantic_api,
                   crossref_api, db_ok, gemini_ok, db, session, prompt,
                   turns_ok>>

\* ----------------------------------------------------------------- chatbot

PERSONA == "You are a helpful AI assistant for an Information Authenticator app"
CHAT_FALLBACK == <<"S", "o", "r", "r", "y">>
PLEASE_ENTER == <<"P", "l", "e", "a", "s", "e">>

Messages == { <<" ">>, <<"x">>, <<" ", "y">> }

\* What generate_content does: it raises, or it answers with a text.
ProviderFails == <<"<raise>">>
ProviderAnswers == { ProviderFails, <<"o", "k", " ">> }

\* Line 392: chat_history[-10:]
HistoryWindowOldest(chat_history) == Take(chat_history, HISTORY_WINDOW)

HistoryWindow(chat_history) == LastN(chat_history, HISTORY_WINDOW)

\* Lines 403-413: the history after the provider call; the append is reached
\* only when generate_content and response.text did not raise.
HistoryAfterAlways(chat_history, turn, answered) == Append(chat_history, turn)

HistoryAfter(chat_history, turn, answered) ==
    IF answered THEN Append(chat_history, turn) ELSE chat_history

ChatbotUpTo(bound) ==
    /\ Len(session.chat_history) < bound
    /\ \E message \in Messages, answer \in ProviderAnswers :
          LET user_message == Strip(message)
              chat_history == IF session.present THEN session.chat_history
                              ELSE <<>>
              answered == answer # ProviderFails
              bot_reply == IF answered THEN Strip(answer) ELSE CHAT_FALLBACK
              turn == [user |-> user_message, assistant |-> bot_reply]
          IN  IF user_message = <<>>
              THEN /\ response' = [op |-> "/chatbot", status |-> "400",
                                   body |-> [error |-> "No message provided",
                                             reply |-> PLEASE_ENTER]]
                   /\ calls' = <<>>
                   /\ UNCHANGED <<session, prompt, turns_ok>>
              ELSE /\ prompt' = [preamble |-> PERSONA,
                                 turns |-> HistoryWindow(chat_history),
                                 message |-> user_message]
                   /\ calls' = <<Call("generate_content", Len(chat_history))>>
                   /\ session' =
                          [present |-> TRUE,
                           chat_history |-> HistoryAfter(chat_history, turn, answered)]
                   /\ turns_ok' = IF answered THEN Append(turns_ok, turn)
                                  ELSE turns_ok
                   /\ response' =
                          IF answered
                          THEN [op |-> "/chatbot", status |-> "200",
                                body |-> [error |-> "", reply |-> bot_reply]]
                          ELSE [op |-> "/chatbot", status |-> "500",
                                body |-> [error |-> "Failed to generate response",
                                          reply |-> CHAT_FALLBACK]]
    /\ UNCHANGED <<result_count, confidence, query, limit, semantic_api,
                   crossref_api, db_ok, gemini_ok, db>>

\* POST /chatbot/clear
ClearSession ==
    /\ session' = [present |-> TRUE, chat_history |-> <<>>]
    /\ turns_ok' = <<>>
    /\ calls' = <<>>
    /\ response' = [op |-> "/chatbot/clear", status |-> "200",
                    body |-> [status |-> "Chat history cleared"]]
    /\ UNCHANGED <<result_count, confidence, query, limit, semantic_api,
                   crossref_api, db_ok, gemini_ok, db, prompt>>

\* ----------------------------------------------------------- specifications

\* The routes of the server.
ChatbotRoute == Tick /\ ChatbotUpTo(MaxRequests)
ClearChatRoute == Tick /\ ClearSession
Next == Verify \/ Stats \/ ChatbotRoute \/ ClearChatRoute
Spec == Init /\ [][Next]_vars

\* The chat routes alone, with longer sessions.
Chatbot == ChatbotUpTo(MaxTurns) /\ UNCHANGED clock
ClearChat == ClearSession /\ UNCHANGED clock
NextChat == Chatbot \/ ClearChat
SpecChat == Init /\ [][NextChat]_vars

NextClassify == CalculateConfidence
SpecClassify == InitClassify /\ [][NextClassify]_vars

NextVerify == VerifyInformation
SpecQuota == InitQuota /\ [][NextVerify]_vars
SpecVerify == InitVerify /\ [][NextVerify]_vars

\* ------------------------------------------------------------------ claims

\* The label the classifier's table gives a count.
ExpectedLabel(n) ==
    CASE n = 0 -> "Not supported"
      [] n \in 1..3 -> "Weak Evidence"
      [] n \in 4..9 -> "Moderate Evidence"
      [] OTHER -> "Strong Evidence"

Strength(label) ==
    CASE label = "Not supported" -> 0
      [] label = "Weak Evidence" -> 1
      [] label = "Moderate Evidence" -> 2
      [] label = "Strong Evidence" -> 3

Returned == response.op = "verify_information" /\ response.status = "returned"
PrimaryPapers == search_semantic_scholar(semantic_api)
SecondaryPapers == search_crossref(crossref_api)
Results == response.body.results
WithTitle(papers, t) == {k \in 1..Len(papers) : Lower(papers[k].title) = t}
Made(f) == {k \in 1..Len(calls) : calls[k].fn = f}
IsPrefix(s, t) == Len(s) <= Len(t) /\ SubSeq(t, 1, Len(s)) = s

\* C1: calculate_confidence returns "Not supported" for 0, "Weak Evidence"
\* for 1..3, "Moderate Evidence" for 4..9 and "Strong Evidence" from 10 on,
\* and no smaller count gets a stronger label.
C1_ConfidenceTable ==
    confidence # "" =>
        /\ (result_count = 0 => confidence = "Not supported")
        /\ (1 <= result_count /\ result_count <= 3 => confidence = "Weak Evidence")
        /\ (4 <= result_count /\ result_count <= 9
                => confidence = "Moderate Evidence")
        /\ (result_count >= 10 => confidence = "Strong Evidence")
        /\ \A m \in 0..result_count :
               Strength(calculate_confidence(m)) <= Strength(confidence)

C1_Witness ==
    /\ confidence = "Moderate Evidence"
    /\ result_count = 9

\* C2: the list verify_information returns is no longer than the limit, and
\* result_count is its length, whatever the lengths the adapters return.
C2_AtMostLimit ==
    Returned =>
        /\ Len(Results) <= limit
        /\ response.body.result_count = Len(Results)

C2_Witness ==
    /\ Returned
    /\ Len(PrimaryPapers) > semantic_limit_of(limit)
    /\ Len(PrimaryPapers) + Len(SecondaryPapers) > limit
    /\ Len(Results) = limit

\* C3 as stated: when both adapters return a record with the same title up
\* to case, the result holds exactly one entry with that title, and it is
\* the primary adapter's.
C3_ExactlyOneFromPrimary ==
    Returned =>
        \A i \in 1..Len(PrimaryPapers), j \in 1..Len(SecondaryPapers) :
            LET t == Lower(PrimaryPapers[i].title)
            IN  Lower(SecondaryPapers[j].title) = t =>
                    /\ Cardinality(WithTitle(Results, t)) = 1
                    /\ \A k \in WithTitle(Results, t) :
                           Results[k].source = "semantic"

\* C3 as amended: when both adapters return a record with the same title up
\* to case, no entry of the result with that title is the secondary
\* adapter's, and the entries with that title are the primary adapter's
\* records with that title among its first `limit` records.
C3_NoneFromSecondary ==
    Returned =>
        \A i \in 1..Len(PrimaryPapers), j \in 1..Len(SecondaryPapers) :
            LET t == Lower(PrimaryPapers[i].title)
            IN  Lower(SecondaryPapers[j].title) = t =>
                    /\ \A k \in WithTitle(Results, t) :
                           Results[k].source = "semantic"
                    /\ Cardinality(WithTitle(Results, t))
                         = Cardinality(WithTitle(Take(PrimaryPapers, limit), t))

C3_Witness ==
    /\ Returned
    /\ \E i \in 1..Len(PrimaryPapers), j \in 1..Len(SecondaryPapers) :
          /\ SecondaryPapers[j].title # PrimaryPapers[i].title
          /\ Lower(SecondaryPapers[j].title) = Lower(PrimaryPapers[i].title)
          /\ Cardinality(WithTitle(Results, Lower(PrimaryPapers[i].title))) = 1
    /\ Len(Results) = 2

\* C4 as stated: the primary adapter is called with floor(0.7 * limit), then
\* the secondary adapter with the rest of the limit.
C4_QuotaSplit ==
    response.op = "verify_information" =>
        /\ Len(calls) >= 2
        /\ calls[1] = Call("search_semantic_scholar", (7 * limit) \div 10)
        /\ calls[2] = Call("search_crossref", limit - ((7 * limit) \div 10))
        /\ calls[1].arg + calls[2].arg = limit

\* C5 as stated: with no paper aggregated the fixed not-found value is
\* returned and generate_summary is not invoked; with papers, found is true,
\* result_count is the number of results and confidence is its label.
C5_SummaryNotInvoked ==
    Returned =>
        /\ (calls[3].arg = 0 =>
               /\ response.body = [found |-> FALSE, confidence |-> "Not supported",
                                   result_count |-> 0, summary |-> NO_PAPERS_FOUND,
                                   results |-> <<>>]
               /\ Made("generate_summary") = {})
        /\ (calls[3].arg > 0 =>
               /\ response.body.found
               /\ response.body.result_count = Len(Results)
               /\ response.body.confidence = ExpectedLabel(Len(Results)))

\* C5 as amended: with no paper aggregated the fixed not-found value is
\* returned and the text-generation provider is not called (generate_summary
\* is invoked with the empty list and what it returns is discarded); with
\* papers, found is true, result_count is the number of results and
\* confidence is its label.
C5_ProviderNotCalled ==
    Returned =>
        /\ calls[3].fn = "save_query_to_db"
        /\ (calls[3].arg = 0 =>
               /\ response.body = [found |-> FALSE, confidence |-> "Not supported",
                                   result_count |-> 0, summary |-> NO_PAPERS_FOUND,
                                   results |-> <<>>]
               /\ Made("generate_summary") # {}
               /\ Made("generate_content") = {})
        /\ (calls[3].arg > 0 =>
               /\ response.body.found
               /\ response.body.result_count = calls[3].arg
               /\ response.body.result_count = Len(Results)
               /\ response.body.confidence = ExpectedLabel(Len(Results)))

C5_Witness ==
    /\ Returned
    /\ semantic_api = [kind |-> "ok", items |-> <<>>]
    /\ crossref_api = [kind |-> "ok", items |-> <<>>]
    /\ ~response.body.found

\* C6 as stated: whatever the providers, the database write and the text
\* generation do, verify_information returns a value; a failed adapter
\* contributes no result and a failed text generation gives the fallback
\* summary.
C6_AlwaysReturns ==
    response.op = "verify_information" =>
        /\ response.status = "returned"
        /\ (semantic_api.kind # "ok" =>
               \A k \in 1..Len(Results) : Results[k].source # "semantic")
        /\ (crossref_api.kind # "ok" =>
               \A k \in 1..Len(Results) : Results[k].source # "crossref")
        /\ (Results # <<>> /\ ~gemini_ok =>
               response.body.summary = SUMMARY_FALLBACK)

\* C10 as stated: every secondary record of the result has a title that
\* differs, up to case, from the title of every record before it.
C10_SecondaryTitlesFresh ==
    Returned =>
        \A k \in 1..Len(Results) :
            Results[k].source = "crossref" =>
                \A m \in 1..(k - 1) :
                    Lower(Results[m].title) # Lower(Results[k].title)

\* C7: the prompt built for a reply holds the persona preamble, then the
\* last min(10, k) of the k turns answered since the last clear (or the
\* start of the session), oldest first, then the new message.
C7_TranscriptWindow ==
    (response.op = "/chatbot" /\ response.status \in {"200", "500"}) =>
        LET prior == IF response.status = "200"
                     THEN SubSeq(turns_ok, 1, Len(turns_ok) - 1)
                     ELSE turns_ok
            k == Len(prior)
            n == IF k < 10 THEN k ELSE 10
        IN  /\ prompt.preamble = PERSONA
            /\ Len(prompt.turns) = n
            /\ \A i \in 1..n : prompt.turns[i] = prior[k - n + i]
            /\ (response.status = "200" =>
                   prompt.message = turns_ok[Len(turns_ok)].user)

C7_Witness ==
    /\ response.op = "/chatbot"
    /\ response.status = "200"
    /\ Len(turns_ok) = 16
    /\ Len(prompt.turns) = 10
    /\ prompt.turns[1] = turns_ok[6]
    /\ prompt.turns[1] # prompt.turns[2]

\* C8: a chat request whose provider call fails is answered with the
\* fallback reply and leaves the session's turns as they were; the turns
\* change in a chat request only by one turn appended at the end, after a
\* provider answer.
C8_FailedTurnForgotten ==
    [][ response'.op = "/chatbot" =>
           /\ (response'.status = "500" =>
                  /\ response'.body.reply = CHAT_FALLBACK
                  /\ session'.chat_history = session.chat_history)
           /\ (session'.chat_history # session.chat_history =>
                  /\ response'.status = "200"
                  /\ session'.chat_history =
                         Append(session.chat_history,
                                [user |-> prompt'.message,
                                 assistant |-> response'.body.reply])) ]_vars

C8_Witness ==
    /\ response.op = "/chatbot"
    /\ response.status = "500"
    /\ Len(session.chat_history) = 1

\* C9: the query log only grows by appending; a verify request that reaches
\* verify_information and whose write succeeds adds exactly one row, written
\* before the summary is generated, with the result_count and confidence of
\* the response; rejected requests, statistics reads and chat requests add
\* none; every row's confidence_level is the label of its result_count.
C9_QueryLog ==
    [][ /\ IsPrefix(db, db')
        /\ Len(db') <= Len(db) + 1
        /\ (Len(db') = Len(db) + 1 =>
               /\ response'.op = "/verify"
               /\ response'.status = "200"
               /\ db'[Len(db')].result_count = response'.body.result_count
               /\ db'[Len(db')].confidence_level = response'.body.confidence
               /\ \E a \in 1..Len(calls'), b \in 1..Len(calls') :
                      /\ a < b
                      /\ calls'[a].fn = "save_query_to_db"
                      /\ calls'[b].fn = "generate_summary")
        /\ (response'.op = "/verify" /\ response'.status = "200" /\ db_ok' =>
               Len(db') = Len(db) + 1)
        /\ (response'.op # "/verify" \/ response'.status = "400" => db' = db)
        /\ \A i \in 1..Len(db') :
               db'[i].confidence_level = ExpectedLabel(db'[i].result_count) ]_vars

C9_Witness ==
    /\ Len(db) = 2
    /\ response.op = "/verify"
    /\ response.status = "200"
    /\ response.body.result_count = 2
    /\ db[2].result_count = 2
    /\ db[1].result_count = 0
=============================================================================
